---- MODULE Spec2Model ----
(***************************************************************************)
(* Model of the reduce-store Storage class (storage.ts, first revision,    *)
(* lines 10-386): per-state-type slots, the reducer queue, deferred state  *)
(* getters, suspendState and the subscriber fan-out.                        *)
(*                                                                          *)
(* JavaScript is single threaded.  Every action below is one synchronous   *)
(* run of store code: a public call (made by the application at top level, *)
(* from a promise callback, from inside a transform or from inside a       *)
(* subscriber callback), the continuation of reduceDeferred after its      *)
(* `await`, one promise reaction of the store itself (jobs), or one        *)
(* iteration of the notifySubscribers loop.  SpecT adds the ReducerTask and *)
(* DeferredTask of classes.ts (lines 79-122) with a clock and their timers; *)
(* Spec2 runs the store with two state constructors.                        *)
(***************************************************************************)
EXTENDS Integers, Sequences, FiniteSets, TLC

\* ---------------------------------------------------------------- bounds
MaxMutsQ == 3     \* reduce / lazyReduce calls in a behaviour of SpecQ
MaxReadsQ == 3    \* getState / suspendState calls in a behaviour of SpecQ
MaxMuts == 2      \* reduce / lazyReduce calls in a behaviour of Spec
MaxReads == 1     \* getState / suspendState calls in a behaviour of Spec
MaxObs == 2       \* getObservableState calls
MaxSubs == 2      \* Observable.subscribe calls
MaxCallsQ == 4    \* public calls in a behaviour of SpecQ
MaxCalls == 4     \* public calls in a behaviour of Spec
MaxCallsS == 5    \* public calls in a behaviour of SpecS
MaxMutsS == 2     \* reduce calls in a behaviour of SpecS
MaxObsS == 2      \* getObservableState calls in a behaviour of SpecS
MaxSubsS == 2     \* Observable.subscribe calls in a behaviour of SpecS
MaxCalls2 == 3    \* public calls in a behaviour of Spec2
MaxMuts2 == 2     \* reduce / lazyReduce calls in a behaviour of Spec2
MaxReads2 == 2    \* getState / suspendState calls in a behaviour of Spec2
MaxObs2 == 1      \* getObservableState calls in a behaviour of Spec2
MaxSubs2 == 1     \* Observable.subscribe calls in a behaviour of Spec2
MaxCallsR == 4    \* public calls in a behaviour of SpecR
MaxMutsR == 3     \* reduce calls in a behaviour of SpecR
MaxReadsR == 2    \* getState calls in a behaviour of SpecR
MaxExec == 3      \* ReducerTask.execute calls in a behaviour of SpecT
MaxTime == 14     \* last clock tick of a behaviour of SpecT
Delay == 6        \* delayMilliseconds of the task, in clock ticks

Keys == {1, 2}                    \* the state constructors (keys of Storage.store)
OneKey == {1}                     \* the one a single-slot specification uses
Args == {1, 2}                    \* values passed to ReducerTask.execute as a1
TaskKey == 1                      \* stateCtor of the ReducerTask's reducer
Undef == [undefined |-> TRUE]     \* JavaScript `undefined`

\* ---------------------------------------------------------------- state
VARIABLES
  state,              \* StateData.state            per key
  isBusy,             \* StateData.isBusy           per key
  isStateSuspended,   \* StateData.isStateSuspended per key
  isStateInitiated,   \* StateData.isStateInitiated per key
  deferredReducers,   \* StateData.deferredReducers per key: Seq of mutation ids
  deferredGetters,    \* StateData.deferredGetters  per key: Seq of read ids
  suspendedGetters,   \* StateData.suspendedGetters per key: Seq of read ids
  subscribers,        \* StateData.subscribers      per key: Seq of subscription ids
  executing,          \* per key: mutations whose reduceAsync promise is pending
  muts,               \* every DeferredReducer ever created, by id
  reads,              \* every DeferredGetter ever created, by id
  obs,                \* every Observable returned by internalGetObservableState
  subs,               \* every Subscriber created by Observable.subscribe
  jobs,               \* per key: promise reactions of the store not yet run
  stack,              \* the synchronous store frame that is calling user code
  completed,          \* per key: number of reduceDeferred continuations run
  lastGood,           \* per key: value of the last successful transform
  evlog,              \* per key: order of settle / start / resolve events
  clock,              \* the time, in ticks
  cancelToken,        \* DeferredTask.cancelToken: id of the last timer set, 0 = undefined
  timers,             \* timers set by setTimeout and neither fired nor cleared
  calls,              \* every ReducerTask.execute call, by id, with its promise
  invocations,        \* every run of DeferredTask.jobToDo
  inside              \* store calls made by a running transform (reduceAsync body)

slotVars == <<state, isBusy, isStateSuspended, isStateInitiated,
              deferredReducers, deferredGetters, suspendedGetters, subscribers>>
vars == <<state, isBusy, isStateSuspended, isStateInitiated,
          deferredReducers, deferredGetters, suspendedGetters, subscribers,
          executing, muts, reads, obs, subs, jobs, stack,
          completed, lastGood, evlog,
          clock, cancelToken, timers, calls, invocations, inside>>
taskVars == <<clock, cancelToken, timers, calls, invocations>>
storeVars == <<state, isBusy, isStateSuspended, isStateInitiated,
               deferredReducers, deferredGetters, suspendedGetters, subscribers,
               executing, muts, reads, obs, subs, jobs, stack,
               completed, lastGood, evlog>>

\* ------------------------------------------------------- pure operators

\* Clone.clone (classes.ts lines 8-10): a new object that Object.assign
\* fills with the fields of the original.
Clone(s) == [f \in DOMAIN s |-> s[f]]

\* safeClone (lines 362-365): undefined stays undefined.
SafeClone(s) == IF s = Undef THEN Undef ELSE Clone(s)

\* Object identity.  Every object the store allocates is named by the place
\* that allocated it; undefined is no object.
NoObj == [site |-> "none", a |-> 0, b |-> 0]

\* The object a call of safeClone(s) at the given place returns (lines
\* 362-365 with classes.ts lines 8-10): a new object, unless s is undefined.
ClonedObj(s, site, a, b) ==
  IF s = Undef THEN NoObj ELSE [site |-> site, a |-> a, b |-> b]

\* The object held in stateData.state when n transforms of the key have
\* completed: the clone line 323 stored after the n-th completion.
StoredObjAt(st, k, n) == ClonedObj(st, "stored", k, n)

\* reduceDeferred line 316: the first argument of reduceAsync is
\* stateData.state itself; no clone is taken for the transform.
TransformInputObj(stored, fresh) == stored

\* JavaScript truthiness of the value caught by `.catch(e => error = e)`.
Truthy(e) == e = "truthy"

\* new StateData(): an empty slot.
NewStateData ==
  [state |-> Undef, isBusy |-> FALSE, isStateSuspended |-> FALSE,
   isStateInitiated |-> FALSE, deferredReducers |-> <<>>,
   deferredGetters |-> <<>>, suspendedGetters |-> <<>>, subscribers |-> <<>>]

NoStack == [kind |-> "none", key |-> 0, idx |-> 0, value |-> Undef,
            obs |-> 0, inCb |-> FALSE, atStart |-> <<>>]

\* A public call can be made whenever user code runs: at top level or in a
\* user promise callback (no store frame on the stack), or synchronously
\* from inside a subscriber's next callback.
UserCodeRuns == stack.kind = "none" \/ stack.inCb

\* reduceDeferred line 304: `if (stateData.isBusy && !isForced) return;`
CanStartMutant(busy, isForced) == TRUE
CanStart(busy, isForced) == ~(busy /\ ~isForced)

\* reduceDeferred line 306: `stateData.deferredReducers.shift()`
ShiftReducerMutant(q) == [head |-> q[Len(q)], rest |-> SubSeq(q, 1, Len(q) - 1)]
ShiftReducer(q) == [head |-> Head(q), rest |-> Tail(q)]

\* reduceDeferred lines 304-309, the synchronous prefix up to the call of
\* reduceAsync: which reducer (0 = none) is taken from the queue.
ReduceDeferredHead(q, busy, isForced) ==
  IF ~CanStart(busy, isForced) \/ q = <<>>
  THEN [run |-> 0, q |-> q, busy |-> busy]
  ELSE [run |-> ShiftReducer(q).head, q |-> ShiftReducer(q).rest, busy |-> TRUE]

\* reduceDeferred line 316: the first argument of reduceAsync.
TransformInputMutant(st) == Undef
TransformInput(st) == st

\* internalGetState lines 217-221: the queue a new getter is pushed to.
PushToSuspendedMutant(suspended) == FALSE
PushToSuspended(suspended) == suspended

\* The flag when a call of internalGetState returns, for each kind of
\* caller: the synchronous part of suspendState (lines 180-182) does not
\* assign it, line 184 is inside the `.then` callback.
SuspendedAfterCallMutant(kind, flag) == kind = "suspend" \/ flag
SuspendedAfterCall(kind, flag) == flag

\* internalGetState line 225: `if (!stateData.isBusy) this.resolveDefferedGetters`
ResolvesInCallMutant(busy) == FALSE
ResolvesInCall(busy) == ~busy

\* resolveDefferedGetters lines 346-352: the getters resolved by one call and
\* what stays in the suspended queue.
ResolveDefferedGetters(dg, sg, suspended) ==
  IF ~suspended
  THEN [getters |-> dg \o sg, sg |-> <<>>]
  ELSE [getters |-> dg, sg |-> sg]

\* reduceDeferred line 322: after the await the flag is cleared, whatever it
\* was and however the promise settled.
SuspendedAfterAwaitMutant(flag) == flag
SuspendedAfterAwait(flag) == FALSE

\* reduceDeferred line 332: `if (stateData.deferredReducers.length)`, the
\* drain goes on with the next reducer instead of resolving the getters.
MoreQueuedMutant(q) == FALSE
MoreQueued(q) == q # <<>>

\* reduceDeferred lines 317-318, 323: the value stored after the await.
\* newState stays undefined when the promise rejected.
StoredState(res) == SafeClone(IF res.ok THEN res.val ELSE Undef)

\* reduceDeferred lines 326-330: how the DeferredReducer's promise settles.
SettleSignalMutant(res) == "pending"
SettleSignal(res) ==
  IF ~res.ok /\ Truthy(res.err) THEN "rejected" ELSE "resolved"

\* What the promise returned by the reduceAsync of mutation m can settle
\* with: the state object this transform builds, or a rejection whose value
\* is truthy (an Error) or falsy (undefined, null, 0, '').
Results(m) ==
  {[ok |-> TRUE, val |-> [v |-> m], err |-> "none"]} \cup
  [ok : {FALSE}, val : {Undef}, err : {"truthy", "falsy"}]

RECURSIVE SeqToSet(_)
SeqToSet(s) == IF s = <<>> THEN {} ELSE {Head(s)} \cup SeqToSet(Tail(s))

\* The promise reactions queued by resolving getters: suspendState's and the
\* replay's `.then` callbacks (lines 182, 241); a getState caller's own
\* callback is user code.
RECURSIVE ReactionsOf(_, _, _)
ReactionsOf(rs, getters, val) ==
  IF getters = <<>> THEN <<>>
  ELSE LET r == rs[Head(getters)]
           rest == ReactionsOf(rs, Tail(getters), val)
       IN  IF r.kind = "user" THEN rest
           ELSE <<[type |-> r.kind, obs |-> r.obs, value |-> val,
                   read |-> Head(getters)]>> \o rest

\* resolveDefferedGetters line 355: the value a getter is resolved with.
ResolvedValueMutant(st) == Undef
ResolvedValue(st) == SafeClone(st)

\* g.resolve(cloneState) for every getter of a batch (lines 354-359).
ResolveReads(rs, getters, val, done) ==
  [r \in DOMAIN rs |->
     IF r \in SeqToSet(getters)
     THEN [rs[r] EXCEPT !.status = "resolved", !.value = ResolvedValue(val),
                        !.valueObj = ClonedObj(ResolvedValue(val), "read", r, 0),
                        !.doneAtResolve = done]
     ELSE rs[r]]

\* Effects of entering reduceAsync for the reducer d.run taken by
\* ReduceDeferredHead (lines 309-318).  thr: reduceAsync throws synchronously
\* instead of returning a promise; reduceDeferred is an async function, so
\* the exception only rejects its own (unobserved) promise and the rest of
\* its body never runs.
MutsAfterStart(ms, d, thr, st, obj) ==
  IF d.run = 0 THEN ms
  ELSE [ms EXCEPT ![d.run].st = IF thr THEN "thrown" ELSE "running",
                  ![d.run].input = TransformInput(st),
                  ![d.run].inputObj =
                     TransformInputObj(obj, ClonedObj(st, "input", d.run, 0))]

ExecAfterStart(ex, d, thr) == IF d.run # 0 /\ ~thr THEN ex \cup {d.run} ELSE ex

LogAfterStart(lg, d) == IF d.run = 0 THEN lg ELSE Append(lg, <<"start", d.run>>)

\* The order in which one resolveDefferedGetters call resolves its getters
\* (forEach, line 354).
ReadEvents(getters) == [i \in 1..Len(getters) |-> <<"read", getters[i]>>]

ThrowChoices(d) == IF d.run = 0 THEN {FALSE} ELSE BOOLEAN

\* ---------------------------------------------------------------- Init
Init ==
  /\ state = [k \in Keys |-> NewStateData.state]
  /\ isBusy = [k \in Keys |-> NewStateData.isBusy]
  /\ isStateSuspended = [k \in Keys |-> NewStateData.isStateSuspended]
  /\ isStateInitiated = [k \in Keys |-> NewStateData.isStateInitiated]
  /\ deferredReducers = [k \in Keys |-> NewStateData.deferredReducers]
  /\ deferredGetters = [k \in Keys |-> NewStateData.deferredGetters]
  /\ suspendedGetters = [k \in Keys |-> NewStateData.suspendedGetters]
  /\ subscribers = [k \in Keys |-> NewStateData.subscribers]
  /\ executing = [k \in Keys |-> {}]
  /\ muts = <<>>
  /\ reads = <<>>
  /\ obs = <<>>
  /\ subs = <<>>
  /\ jobs = [k \in Keys |-> <<>>]
  /\ stack = NoStack
  /\ completed = [k \in Keys |-> 0]
  /\ lastGood = [k \in Keys |-> Undef]
  /\ evlog = [k \in Keys |-> <<>>]
  /\ clock = 0
  /\ cancelToken = 0
  /\ timers = {}
  /\ calls = <<>>
  /\ invocations = <<>>
  /\ inside = {}

\* -------------------------------------------------------------- actions

\* getStateData (lines 292-299): the slot the registry holds for a state
\* constructor, created on first use.
GetStateDataMutant(k) == 1
GetStateData(k) == k

\* internalReduce line 275: `if (isDeferred)` leaves the request queued and
\* skips the call of reduceDeferred.
LeftQueuedMutant(isDeferred) == FALSE
LeftQueued(isDeferred) == isDeferred

\* internalReduce (lines 266-281), reached from reduce (isDeferred = FALSE)
\* and lazyReduce (isDeferred = TRUE) through createReducerAndReduce.
InternalReduce(k, isDeferred) ==
  /\ UserCodeRuns
  /\ LET sd == GetStateData(k)
         id == Len(muts) + 1
         q1 == Append(deferredReducers[sd], id)
         d  == IF LeftQueued(isDeferred)
               THEN [run |-> 0, q |-> q1, busy |-> isBusy[sd]]
               ELSE ReduceDeferredHead(q1, isBusy[sd], FALSE)
         m0 == [key |-> k, lazy |-> isDeferred, st |-> "queued",
                input |-> Undef, inputObj |-> NoObj, outcome |-> "none",
                output |-> Undef,
                err |-> "none", signal |-> "pending"]
     IN \E thr \in ThrowChoices(d) :
          /\ isStateInitiated' = [isStateInitiated EXCEPT ![sd] = TRUE]
          /\ deferredReducers' = [deferredReducers EXCEPT ![sd] = d.q]
          /\ isBusy' = [isBusy EXCEPT ![sd] = d.busy]
          /\ muts' = MutsAfterStart(Append(muts, m0), d, thr, state[sd],
                                  StoredObjAt(state[sd], sd, completed[sd]))
          /\ executing' = [executing EXCEPT ![sd] = ExecAfterStart(@, d, thr)]
          /\ evlog' = [evlog EXCEPT ![sd] = LogAfterStart(@, d)]
  /\ UNCHANGED <<state, isStateSuspended, deferredGetters, suspendedGetters,
                 subscribers, reads, obs, subs, jobs, stack, completed, lastGood>>

Reduce(k) == InternalReduce(k, FALSE)

LazyReduce(k) == InternalReduce(k, TRUE)

\* internalGetState (lines 213-227).  kind tells who waits for the promise:
\* "user" (getState), "suspend" (suspendState, line 182) or "replay"
\* (the subscribe function of observable o, line 241).
InternalGetState(k, kind, o) ==
  LET sd == GetStateData(k)
         id == Len(reads) + 1
         toSusp == PushToSuspended(isStateSuspended[sd])
         r0 == [key |-> k, kind |-> kind, obs |-> o,
                susp |-> isStateSuspended[sd], status |-> "pending",
                value |-> Undef, valueObj |-> NoObj,
                doneAtIssue |-> completed[sd],
                doneAtResolve |-> 0, mutsAtIssue |-> Len(muts),
                busyAtIssue |-> isBusy[sd],
                drainAtIssue |-> executing[sd] # {}, thenDone |-> FALSE,
                started |-> ReduceDeferredHead(deferredReducers[sd], isBusy[sd], FALSE).run]
         rs1 == Append(reads, r0)
         dg1 == IF toSusp THEN deferredGetters[sd] ELSE Append(deferredGetters[sd], id)
         sg1 == IF toSusp THEN Append(suspendedGetters[sd], id) ELSE suspendedGetters[sd]
         d   == ReduceDeferredHead(deferredReducers[sd], isBusy[sd], FALSE)
         now == ResolvesInCall(d.busy)
         rg  == ResolveDefferedGetters(dg1, sg1, isStateSuspended[sd])
     IN \E thr \in ThrowChoices(d) :
          /\ deferredReducers' = [deferredReducers EXCEPT ![sd] = d.q]
          /\ isBusy' = [isBusy EXCEPT ![sd] = d.busy]
          /\ muts' = MutsAfterStart(muts, d, thr, state[sd],
                                  StoredObjAt(state[sd], sd, completed[sd]))
          /\ executing' = [executing EXCEPT ![sd] = ExecAfterStart(@, d, thr)]
          /\ evlog' = [evlog EXCEPT ![sd] =
                IF now THEN LogAfterStart(@, d) \o ReadEvents(rg.getters)
                ELSE LogAfterStart(@, d)]
          /\ deferredGetters' = [deferredGetters EXCEPT ![sd] = IF now THEN <<>> ELSE dg1]
          /\ suspendedGetters' = [suspendedGetters EXCEPT ![sd] = IF now THEN rg.sg ELSE sg1]
          /\ reads' = IF now THEN ResolveReads(rs1, rg.getters, state[sd], completed[sd])
                      ELSE rs1
          /\ jobs' = [jobs EXCEPT ![sd] =
                IF now THEN @ \o ReactionsOf(rs1, rg.getters, SafeClone(state[sd])) ELSE @]
  /\ isStateSuspended' =
       [isStateSuspended EXCEPT ![GetStateData(k)] = SuspendedAfterCall(kind, @)]
  /\ UNCHANGED <<state, isStateInitiated, subscribers,
                 stack, completed, lastGood>>

\* getState (lines 36-41).
GetState(k) ==
  /\ UserCodeRuns
  /\ InternalGetState(k, "user", 0)
  /\ UNCHANGED <<obs, subs>>

\* suspendState (lines 179-187): the call itself; the flag is set by the
\* `.then` reaction, RunSuspendJob.
SuspendState(k) ==
  /\ UserCodeRuns
  /\ InternalGetState(k, "suspend", 0)
  /\ UNCHANGED <<obs, subs>>

\* getObservableState / internalGetObservableState lines 229-235, 257: the
\* flag is evaluated when the observable is created.
GetObservableState(k) ==
  /\ UserCodeRuns
  /\ obs' = Append(obs, [key |-> k,
                         need |-> isStateInitiated[k] /\ ~isStateSuspended[k],
                         subscriber |-> 0])
  /\ UNCHANGED <<slotVars, executing, muts, reads, subs, jobs, stack,
                 completed, lastGood, evlog>>

\* Observable.subscribe: runs the subscribe function of lines 235-249 with a
\* new Subscriber s.
Subscribe(o) ==
  /\ UserCodeRuns
  /\ LET s == Len(subs) + 1
         k == obs[o].key
     IN /\ obs' = [obs EXCEPT ![o].subscriber = s]
        /\ subs' = Append(subs, [obs |-> o, closed |-> FALSE, got |-> <<>>,
                                 replay |-> obs[o].need,
                                 initAtSub |-> isStateInitiated[k],
                                 suspAtSub |-> isStateSuspended[k],
                                 doneAtSub |-> completed[k],
                                 drainAtSub |-> executing[k] # {}])
        /\ IF obs[o].need
           THEN InternalGetState(k, "replay", o)
           ELSE /\ subscribers' = [subscribers EXCEPT ![k] = Append(@, s)]
                /\ UNCHANGED <<state, isBusy, isStateSuspended, isStateInitiated,
                               deferredReducers, deferredGetters, suspendedGetters,
                               executing, muts, reads, jobs, stack, completed,
                               lastGood, evlog>>

\* Index of the first element equal to x, 0 when there is none
\* (Array.findIndex + 1).
RECURSIVE FindIndex(_, _, _)
FindIndex(list, x, i) ==
  IF i > Len(list) THEN 0
  ELSE IF list[i] = x THEN i ELSE FindIndex(list, x, i + 1)

RemoveAt(list, i) == SubSeq(list, 1, i - 1) \o SubSeq(list, i + 1, Len(list))

\* finalize callback, lines 250-255: findIndex returns -1 when the closure's
\* subscriber is not in the list and splice(-1, 1) removes the last element.
Finalize(list, x) ==
  LET i == FindIndex(list, x, 1)
  IN  IF i # 0 THEN RemoveAt(list, i)
      ELSE IF list = <<>> THEN list ELSE RemoveAt(list, Len(list))

\* Subscription.unsubscribe: closes the Subscriber and runs the finalize
\* callback once; a second unsubscribe does nothing.
Unsubscribe(s) ==
  /\ UserCodeRuns
  /\ ~subs[s].closed
  /\ LET o == subs[s].obs
         k == obs[o].key
     IN /\ subs' = [subs EXCEPT ![s].closed = TRUE]
        /\ subscribers' = [subscribers EXCEPT ![k] = Finalize(@, obs[o].subscriber)]
  /\ UNCHANGED <<state, isBusy, isStateSuspended, isStateInitiated,
                 deferredReducers, deferredGetters, suspendedGetters,
                 executing, muts, reads, obs, jobs, stack, completed,
                 lastGood, evlog>>

\* suspendState's reaction, lines 182-186.  When the callback has returned,
\* the promise `.then` made, which suspendState returned, is resolved.
RunSuspendJob(k) ==
  /\ stack.kind = "none"
  /\ jobs[k] # <<>>
  /\ Head(jobs[k]).type = "suspend"
  /\ jobs' = [jobs EXCEPT ![k] = Tail(@)]
  /\ isStateSuspended' = [isStateSuspended EXCEPT ![k] = TRUE]
  /\ reads' = [reads EXCEPT ![Head(jobs[k]).read].thenDone = TRUE]
  /\ UNCHANGED <<state, isBusy, isStateInitiated, deferredReducers,
                 deferredGetters, suspendedGetters, subscribers, executing,
                 muts, obs, subs, stack, completed, lastGood, evlog>>

\* subscriber.next(safeClone(value)), lines 243 and 288: the clone is taken
\* for this one call of next.
Delivery(kind, val, k, s) ==
  [kind |-> kind, value |-> SafeClone(val), drain |-> completed[k],
   obj |-> ClonedObj(SafeClone(val), "next", s, Len(subs[s].got) + 1)]

\* The replay reaction, lines 241-243: subscriber.next(safeClone(value)) on
\* the Subscriber the closure variable holds now.  A closed Subscriber
\* ignores next, so no user code runs and line 244 follows at once.
RunReplayJob(k) ==
  /\ stack.kind = "none"
  /\ jobs[k] # <<>>
  /\ Head(jobs[k]).type = "replay"
  /\ LET j == Head(jobs[k])
         s == obs[j.obs].subscriber
     IN /\ jobs' = [jobs EXCEPT ![k] = Tail(@)]
        /\ IF subs[s].closed
           THEN /\ subscribers' = [subscribers EXCEPT ![k] = Append(@, s)]
                /\ UNCHANGED <<subs, stack>>
           ELSE /\ subs' = [subs EXCEPT ![s].got = Append(@, Delivery("replay", j.value, k, s))]
                /\ stack' = [NoStack EXCEPT !.kind = "replay", !.key = k,
                                            !.obs = j.obs, !.inCb = TRUE]
                /\ UNCHANGED subscribers
  /\ UNCHANGED <<state, isBusy, isStateSuspended, isStateInitiated,
                 deferredReducers, deferredGetters, suspendedGetters,
                 executing, muts, reads, obs, completed, lastGood, evlog>>

\* Line 244, after the subscriber's next callback has returned.
ReplayPush ==
  /\ stack.kind = "replay"
  /\ subscribers' = [subscribers EXCEPT ![stack.key] = Append(@, obs[stack.obs].subscriber)]
  /\ stack' = NoStack
  /\ UNCHANGED <<state, isBusy, isStateSuspended, isStateInitiated,
                 deferredReducers, deferredGetters, suspendedGetters,
                 executing, muts, reads, obs, subs, jobs, completed,
                 lastGood, evlog>>

\* The promise a store call made by a running transform gave it: the
\* getter's promise of a getState (line 215), the DeferredReducer's promise
\* of a reduce (lines 269-272).
Settled(e) ==
  IF e.kind = "read" THEN reads[e.id].status = "resolved"
  ELSE muts[e.id].signal # "pending"

\* The promise returned by reduceAsync (IReducer, lines 750-753) is user
\* code: when its body awaits a promise the store gave it, it cannot settle
\* before that promise has.
TransformCanSettle(m) ==
  \A e \in inside : (e.by = m /\ e.awaited) => Settled(e)

\* reduceDeferred after `await promise` (lines 320-341) for the transform of
\* m settling with res.  It runs as a promise reaction, after the reactions
\* the store queued for this key before the transform started.  With an
\* empty subscriber list notifySubscribers returns at once and line 341
\* follows; otherwise the loop is continued by NotifySubscriber.
Complete(k, m, res) ==
  /\ stack.kind = "none"
  /\ jobs[k] = <<>>
  /\ m \in executing[k]
  /\ TransformCanSettle(m)
  /\ LET st1  == StoredState(res)
         sig  == SettleSignal(res)
         ms1  == [muts EXCEPT ![m].st = "done",
                              ![m].outcome = IF res.ok THEN "ok" ELSE "rejected",
                              ![m].output = res.val,
                              ![m].err = res.err,
                              ![m].signal = sig]
         lg1  == Append(evlog[k], <<"settle", m>>)
         more == MoreQueued(deferredReducers[k])
         d    == IF more THEN ReduceDeferredHead(deferredReducers[k], TRUE, TRUE)
                 ELSE [run |-> 0, q |-> deferredReducers[k], busy |-> TRUE]
         rg   == ResolveDefferedGetters(deferredGetters[k], suspendedGetters[k],
                                        SuspendedAfterAwait(isStateSuspended[k]))
     IN \E thr \in ThrowChoices(d) :
          /\ isStateSuspended' = [isStateSuspended EXCEPT ![k] = SuspendedAfterAwait(@)]
          /\ state' = [state EXCEPT ![k] = st1]
          /\ completed' = [completed EXCEPT ![k] = @ + 1]
          /\ lastGood' = [lastGood EXCEPT ![k] = IF res.ok THEN res.val ELSE @]
          /\ deferredReducers' = [deferredReducers EXCEPT ![k] = d.q]
          /\ muts' = MutsAfterStart(ms1, d, thr, st1,
                                  StoredObjAt(st1, k, completed[k] + 1))
          /\ executing' = [executing EXCEPT ![k] = ExecAfterStart(@ \ {m}, d, thr)]
          /\ IF more
             THEN /\ evlog' = [evlog EXCEPT ![k] = LogAfterStart(lg1, d)]
                  /\ UNCHANGED <<deferredGetters, suspendedGetters, reads, jobs,
                                 stack, isBusy>>
             ELSE /\ evlog' = [evlog EXCEPT ![k] =
                        (lg1 \o ReadEvents(rg.getters)) \o <<<<"drained", completed[k] + 1>>>>]
                  /\ deferredGetters' = [deferredGetters EXCEPT ![k] = <<>>]
                  /\ suspendedGetters' = [suspendedGetters EXCEPT ![k] = rg.sg]
                  /\ reads' = ResolveReads(reads, rg.getters, st1, completed[k] + 1)
                  /\ jobs' = [jobs EXCEPT ![k] = @ \o ReactionsOf(reads, rg.getters, SafeClone(st1))]
                  /\ IF subscribers[k] = <<>>
                     THEN /\ isBusy' = [isBusy EXCEPT ![k] = FALSE]
                          /\ UNCHANGED stack
                     ELSE /\ stack' = [NoStack EXCEPT !.kind = "fanout", !.key = k,
                                                      !.idx = 1, !.value = st1,
                                                      !.atStart = subscribers[k]]
                          /\ UNCHANGED isBusy
  /\ UNCHANGED <<isStateInitiated, subscribers, obs, subs>>

\* One iteration of the for-of loop of notifySubscribers (lines 285-289).
\* The array iterator re-reads the length of the live list before each
\* iteration.
NotifySubscriber ==
  /\ stack.kind = "fanout"
  /\ stack.idx <= Len(subscribers[stack.key])
  /\ LET s == subscribers[stack.key][stack.idx]
     IN /\ subs' = [subs EXCEPT ![s].got =
                      IF subs[s].closed THEN @
                      ELSE Append(@, Delivery("notify", stack.value, stack.key, s))]
        /\ stack' = [stack EXCEPT !.idx = @ + 1, !.inCb = ~subs[s].closed]
  /\ UNCHANGED <<slotVars, executing, muts, reads, obs, jobs, completed,
                 lastGood, evlog>>

\* The loop ends and line 341 clears isBusy.
NotifyDone ==
  /\ stack.kind = "fanout"
  /\ stack.idx > Len(subscribers[stack.key])
  /\ isBusy' = [isBusy EXCEPT ![stack.key] = FALSE]
  /\ stack' = NoStack
  /\ UNCHANGED <<state, isStateSuspended, isStateInitiated, deferredReducers,
                 deferredGetters, suspendedGetters, subscribers, executing,
                 muts, reads, obs, subs, jobs, completed, lastGood, evlog>>

\* Calls of getState and suspendState made so far.
UserReads == Cardinality({r \in DOMAIN reads : reads[r].kind # "replay"})

\* Public calls made so far.
Calls == Len(muts) + UserReads + Len(obs) + Len(subs)

\* The queue engine alone: mutations, reads and suspendState.
NextQ ==
  \/ \E k \in OneKey : Calls < MaxCallsQ /\ Len(muts) < MaxMutsQ /\ Reduce(k) /\ UNCHANGED <<taskVars, inside>>
  \/ \E k \in OneKey : Calls < MaxCallsQ /\ Len(muts) < MaxMutsQ /\ LazyReduce(k) /\ UNCHANGED <<taskVars, inside>>
  \/ \E k \in OneKey : Calls < MaxCallsQ /\ UserReads < MaxReadsQ /\ GetState(k) /\ UNCHANGED <<taskVars, inside>>
  \/ \E k \in OneKey : Calls < MaxCallsQ /\ UserReads < MaxReadsQ /\ SuspendState(k) /\ UNCHANGED <<taskVars, inside>>
  \/ \E k \in OneKey : RunSuspendJob(k) /\ UNCHANGED <<taskVars, inside>>
  \/ \E k \in OneKey, m \in DOMAIN muts : \E res \in Results(m) : Complete(k, m, res) /\ UNCHANGED <<taskVars, inside>>

SpecQ == Init /\ [][NextQ]_vars

\* The whole store, with observables and subscribers.
Next ==
  \/ \E k \in OneKey : Calls < MaxCalls /\ Len(muts) < MaxMuts /\ Reduce(k) /\ UNCHANGED <<taskVars, inside>>
  \/ \E k \in OneKey : Calls < MaxCalls /\ Len(muts) < MaxMuts /\ LazyReduce(k) /\ UNCHANGED <<taskVars, inside>>
  \/ \E k \in OneKey : Calls < MaxCalls /\ UserReads < MaxReads /\ GetState(k) /\ UNCHANGED <<taskVars, inside>>
  \/ \E k \in OneKey : Calls < MaxCalls /\ UserReads < MaxReads /\ SuspendState(k) /\ UNCHANGED <<taskVars, inside>>
  \/ \E k \in OneKey : Calls < MaxCalls /\ Len(obs) < MaxObs /\ GetObservableState(k) /\ UNCHANGED <<taskVars, inside>>
  \/ \E o \in DOMAIN obs : Calls < MaxCalls /\ Len(subs) < MaxSubs /\ Subscribe(o) /\ UNCHANGED <<taskVars, inside>>
  \/ \E s \in DOMAIN subs : Unsubscribe(s) /\ UNCHANGED <<taskVars, inside>>
  \/ \E k \in OneKey : RunSuspendJob(k) /\ UNCHANGED <<taskVars, inside>>
  \/ \E k \in OneKey : RunReplayJob(k) /\ UNCHANGED <<taskVars, inside>>
  \/ ReplayPush /\ UNCHANGED <<taskVars, inside>>
  \/ \E k \in OneKey, m \in DOMAIN muts : \E res \in Results(m) : Complete(k, m, res) /\ UNCHANGED <<taskVars, inside>>
  \/ NotifySubscriber /\ UNCHANGED <<taskVars, inside>>
  \/ NotifyDone /\ UNCHANGED <<taskVars, inside>>

Spec == Init /\ [][Next]_vars

\* Mutations, observables and subscribers alone.
NextS ==
  \/ \E k \in OneKey : Calls < MaxCallsS /\ Len(muts) < MaxMutsS /\ Reduce(k) /\ UNCHANGED <<taskVars, inside>>
  \/ \E k \in OneKey : Calls < MaxCallsS /\ Len(obs) < MaxObsS /\ GetObservableState(k) /\ UNCHANGED <<taskVars, inside>>
  \/ \E o \in DOMAIN obs : Calls < MaxCallsS /\ Len(subs) < MaxSubsS /\ Subscribe(o) /\ UNCHANGED <<taskVars, inside>>
  \/ \E s \in DOMAIN subs : Unsubscribe(s) /\ UNCHANGED <<taskVars, inside>>
  \/ \E k \in OneKey : RunReplayJob(k) /\ UNCHANGED <<taskVars, inside>>
  \/ ReplayPush /\ UNCHANGED <<taskVars, inside>>
  \/ \E k \in OneKey, m \in DOMAIN muts : \E res \in Results(m) : Complete(k, m, res) /\ UNCHANGED <<taskVars, inside>>
  \/ NotifySubscriber /\ UNCHANGED <<taskVars, inside>>
  \/ NotifyDone /\ UNCHANGED <<taskVars, inside>>

SpecS == Init /\ [][NextS]_vars

\* clearTimeout (classes.ts line 114): the timer with this id, if it is
\* still pending, is removed; clearTimeout(undefined) does nothing.
ClearTimeoutMutant(ts, token) == ts
ClearTimeout(ts, token) == {t \in ts : t.id # token}

\* ReducerTask.execute -> DeferredTask.execute (classes.ts lines 90-92,
\* 113-121): clears the timer of the previous call and sets a new one that
\* holds this call's arguments and this call's resolve function.
Execute(a) ==
  /\ stack.kind = "none"
  /\ LET c == Len(calls) + 1
     IN /\ timers' = ClearTimeout(timers, cancelToken) \cup {[id |-> c, due |-> clock + Delay]}
        /\ cancelToken' = c
        /\ calls' = Append(calls, [at |-> clock, arg |-> a, signal |-> "pending",
                                   settledAt |-> 0])
  /\ UNCHANGED <<clock, invocations, storeVars, inside>>

\* The timer callback (classes.ts lines 117-118) of call t.id, a macrotask:
\* it runs when no store code and no promise reaction is pending.  jobToDo
\* is the arrow function of lines 96-98: it calls Storage.reduce with the
\* arguments of that call and returns undefined, so `resolve(undefined)`
\* settles the promise of the call at once.
Fire(t) ==
  /\ t.due <= clock
  /\ stack.kind = "none"
  /\ \A k \in Keys : jobs[k] = <<>>
  /\ timers' = timers \ {t}
  /\ Reduce(TaskKey)
  /\ invocations' = Append(invocations, [call |-> t.id, at |-> clock,
                                         arg |-> calls[t.id].arg,
                                         mut |-> Len(muts) + 1])
  /\ calls' = [calls EXCEPT ![t.id].signal = "resolved", ![t.id].settledAt = clock]
  /\ UNCHANGED <<clock, cancelToken, inside>>

\* Time passes; a timer fires no later than its due time.
Tick ==
  /\ \A t \in timers : t.due > clock
  /\ clock' = clock + 1
  /\ UNCHANGED <<cancelToken, timers, calls, invocations, storeVars, inside>>

\* A ReducerTask created by createReducerTask (storage.ts lines 172-177) and
\* the store it enqueues into.
NextT ==
  \/ \E a \in Args : Len(calls) < MaxExec /\ Execute(a)
  \/ \E t \in timers : Fire(t)
  \/ clock < MaxTime /\ Tick
  \/ \E k \in OneKey, m \in DOMAIN muts : \E res \in Results(m) :
       Complete(k, m, res) /\ UNCHANGED <<taskVars, inside>>

SpecT == Init /\ [][NextT]_vars

\* The whole store with two state types.
Next2 ==
  \/ \E k \in Keys : Calls < MaxCalls2 /\ Len(muts) < MaxMuts2 /\ Reduce(k) /\ UNCHANGED <<taskVars, inside>>
  \/ \E k \in Keys : Calls < MaxCalls2 /\ Len(muts) < MaxMuts2 /\ LazyReduce(k) /\ UNCHANGED <<taskVars, inside>>
  \/ \E k \in Keys : Calls < MaxCalls2 /\ UserReads < MaxReads2 /\ GetState(k) /\ UNCHANGED <<taskVars, inside>>
  \/ \E k \in Keys : Calls < MaxCalls2 /\ UserReads < MaxReads2 /\ SuspendState(k) /\ UNCHANGED <<taskVars, inside>>
  \/ \E k \in Keys : Calls < MaxCalls2 /\ Len(obs) < MaxObs2 /\ GetObservableState(k) /\ UNCHANGED <<taskVars, inside>>
  \/ \E o \in DOMAIN obs : Calls < MaxCalls2 /\ Len(subs) < MaxSubs2 /\ Subscribe(o) /\ UNCHANGED <<taskVars, inside>>
  \/ \E s \in DOMAIN subs : Unsubscribe(s) /\ UNCHANGED <<taskVars, inside>>
  \/ \E k \in Keys : RunSuspendJob(k) /\ UNCHANGED <<taskVars, inside>>
  \/ \E k \in Keys : RunReplayJob(k) /\ UNCHANGED <<taskVars, inside>>
  \/ ReplayPush /\ UNCHANGED <<taskVars, inside>>
  \/ \E k \in Keys, m \in DOMAIN muts : \E res \in Results(m) : Complete(k, m, res) /\ UNCHANGED <<taskVars, inside>>
  \/ NotifySubscriber /\ UNCHANGED <<taskVars, inside>>
  \/ NotifyDone /\ UNCHANGED <<taskVars, inside>>

Spec2 == Init /\ [][Next2]_vars

\* getState(K) called by the body of the running transform m of K, which
\* then awaits the promise (w) or does not.  A call made in the synchronous
\* part of reduceAsync finds the slot as a later one does: isBusy was set at
\* line 309 and the reducer shifted at line 306 before line 316 calls it.
GetStateInside(k, m, w) ==
  /\ stack.kind = "none"
  /\ m \in executing[k]
  /\ GetState(k)
  /\ inside' = inside \cup {[by |-> m, kind |-> "read", id |-> Len(reads) + 1,
                              awaited |-> w]}

\* reduce(K) called by the body of the running transform m of K.
ReduceInside(k, m, w) ==
  /\ stack.kind = "none"
  /\ m \in executing[k]
  /\ Reduce(k)
  /\ inside' = inside \cup {[by |-> m, kind |-> "mut", id |-> Len(muts) + 1,
                              awaited |-> w]}

\* The queue engine with transforms that call the store for their own key.
NextR ==
  \/ \E k \in OneKey : Calls < MaxCallsR /\ Len(muts) < MaxMutsR /\ Reduce(k) /\ UNCHANGED <<taskVars, inside>>
  \/ \E k \in OneKey : Calls < MaxCallsR /\ UserReads < MaxReadsR /\ GetState(k) /\ UNCHANGED <<taskVars, inside>>
  \/ \E k \in OneKey, m \in DOMAIN muts, w \in BOOLEAN :
       Calls < MaxCallsR /\ UserReads < MaxReadsR /\ GetStateInside(k, m, w) /\ UNCHANGED taskVars
  \/ \E k \in OneKey, m \in DOMAIN muts, w \in BOOLEAN :
       Calls < MaxCallsR /\ Len(muts) < MaxMutsR /\ ReduceInside(k, m, w) /\ UNCHANGED taskVars
  \/ \E k \in OneKey, m \in DOMAIN muts : \E res \in Results(m) : Complete(k, m, res) /\ UNCHANGED <<taskVars, inside>>

SpecR == Init /\ [][NextR]_vars

\* ------------------------------------------------------------ properties

RECURSIVE EventsOf(_, _)
EventsOf(lg, tag) ==
  IF lg = <<>> THEN <<>>
  ELSE IF Head(lg)[1] = tag THEN <<Head(lg)[2]>> \o EventsOf(Tail(lg), tag)
       ELSE EventsOf(Tail(lg), tag)

\* The mutations of key k in the order their transforms were entered.
Started(k) == EventsOf(evlog[k], "start")

\* The reads of key k in the order they were resolved.
ResolvedOrder(k) == EventsOf(evlog[k], "read")

\* The mutations of key k in the order they were enqueued (ids are given in
\* call order).
RECURSIVE EnqueuedFrom(_, _)
EnqueuedFrom(k, i) ==
  IF i > Len(muts) THEN <<>>
  ELSE IF muts[i].key = k THEN <<i>> \o EnqueuedFrom(k, i + 1)
       ELSE EnqueuedFrom(k, i + 1)

Enqueued(k) == EnqueuedFrom(k, 1)

\* Position of event e in the log of key k, 0 when it has not happened.
EventPos(k, e) == FindIndex(evlog[k], e, 1)

\* The step completes the transform of m (reduceDeferred resumes after await).
Completes(k, m) == m \in executing[k] /\ muts'[m].st = "done"

\* C1: for every key at most one transform (reduceAsync) is executing at any
\* time, whatever calls are interleaved.
C1_AtMostOneTransform == \A k \in Keys : Cardinality(executing[k]) <= 1

\* C1 witness: a transform is in flight while a non-lazy reduce, submitted
\* in the meantime, waits in the queue.
C1_Witness ==
  \E k \in Keys :
    /\ executing[k] # {}
    /\ \E i \in 1..Len(deferredReducers[k]) : ~muts[deferredReducers[k][i]].lazy

\* C2: the state passed to the n-th executed transform of a key is the value
\* returned by the (n-1)-th when that one succeeded, and undefined for n = 1.
C2_SnapshotChain ==
  \A k \in Keys :
    \A n \in 1..Len(Started(k)) :
      IF n = 1 THEN muts[Started(k)[n]].input = Undef
      ELSE muts[Started(k)[n - 1]].outcome = "ok"
             => muts[Started(k)[n]].input = muts[Started(k)[n - 1]].output

\* C2 witness: three transforms ran; the second was submitted lazily, the
\* third while the slot was busy, and both predecessors succeeded.
C2_Witness ==
  \E k \in Keys :
    /\ Len(Started(k)) = 3
    /\ muts[Started(k)[1]].outcome = "ok"
    /\ muts[Started(k)[2]].outcome = "ok"
    /\ muts[Started(k)[2]].lazy
    /\ muts[Started(k)[3]].input = muts[Started(k)[2]].output

\* C3: transforms of a key start in exactly the order their mutations were
\* enqueued, reduce and lazyReduce in one FIFO: the started ones followed by
\* the queued ones are the enqueued ones, nothing skipped, doubled or
\* reordered.
C3_FifoOrder ==
  \A k \in Keys : Enqueued(k) = Started(k) \o deferredReducers[k]

\* C3 witness: three mutations, a lazy one among them, have all started.
C3_Witness ==
  \E k \in Keys :
    /\ Len(Started(k)) = 3
    /\ \E n \in 1..3 : muts[Started(k)[n]].lazy
    /\ \E n \in 1..3 : ~muts[Started(k)[n]].lazy

\* C4: when a transform's promise rejects, that mutation's completion signal
\* is rejected and no other; every mutation's signal settles according to
\* its own outcome, the mutations queued behind are still run and the slot
\* is not busy once the queue is empty.
C4_RejectionIsolated ==
  /\ \A m \in DOMAIN muts :
       /\ muts[m].outcome = "rejected" => muts[m].signal = "rejected"
       /\ muts[m].outcome = "ok" => muts[m].signal = "resolved"
       /\ muts[m].signal = "rejected" => muts[m].outcome = "rejected"
  /\ \A k \in Keys :
       (stack.kind = "none" /\ executing[k] = {}
          /\ \E m \in DOMAIN muts : muts[m].key = k /\ muts[m].outcome = "rejected")
       => (~isBusy[k] /\ \A m \in DOMAIN muts :
                            muts[m].key = k /\ ~muts[m].lazy => muts[m].st # "queued")

\* C5: when a transform fails the slot's snapshot keeps the value it had
\* before that transform started.
C5_FailureKeepsState ==
  [][\A k \in Keys : \A m \in DOMAIN muts :
       (Completes(k, m) /\ muts'[m].outcome = "rejected") => state'[k] = state[k]]_vars

\* C6: a read pending when the last mutation of a batch fails is resolved
\* when the slot reaches idle, with the last successfully settled snapshot.
C6_ReadAfterFailure ==
  [][\A k \in Keys : \A m \in DOMAIN muts : \A r \in DOMAIN reads :
       (/\ Completes(k, m)
        /\ muts'[m].outcome = "rejected"
        /\ deferredReducers[k] = <<>>
        /\ reads[r].key = k
        /\ reads[r].status = "pending")
       => (reads'[r].status = "resolved" /\ reads'[r].value = lastGood[k])]_vars

\* C7: a mutation's completion signal settles as soon as its own transform
\* has finished (resolved on success), before any mutation queued after it
\* starts executing.
C7_SignalSettlesFirst ==
  /\ \A m \in DOMAIN muts :
       /\ muts[m].outcome # "none" => muts[m].signal # "pending"
       /\ muts[m].outcome = "ok" => muts[m].signal = "resolved"
  /\ \A k \in Keys : \A n \in 2..Len(Started(k)) :
       /\ EventPos(k, <<"settle", Started(k)[n - 1]>>) # 0
       /\ EventPos(k, <<"settle", Started(k)[n - 1]>>)
            < EventPos(k, <<"start", Started(k)[n]>>)

\* C7 witness: a mutation submitted while its predecessor was in flight is
\* executing and the predecessor's signal is already resolved.
C7_Witness ==
  \E m1, m2 \in DOMAIN muts :
    /\ m1 < m2
    /\ muts[m1].key = muts[m2].key
    /\ muts[m1].signal = "resolved"
    /\ muts[m2].st = "running"
    /\ ~muts[m2].lazy

\* C8: a getState call on a slot that is not busy, not suspended and has no
\* queued mutation is resolved within the call, with the current snapshot.
C8_IdleReadResolvesInCall ==
  [][\A k \in Keys :
       (/\ Len(reads') = Len(reads) + 1
        /\ reads'[Len(reads')].key = k
        /\ reads'[Len(reads')].kind = "user"
        /\ ~isBusy[k] /\ ~isStateSuspended[k] /\ deferredReducers[k] = <<>>)
       => (/\ reads'[Len(reads')].status = "resolved"
           /\ reads'[Len(reads')].value = state[k])]_vars

\* C8 witness: a getState issued on an idle slot after a mutation has
\* completed is resolved, no mutation having completed in between, with that
\* mutation's state.
C8_Witness ==
  \E r \in DOMAIN reads :
    /\ reads[r].kind = "user"
    /\ ~reads[r].susp
    /\ reads[r].status = "resolved"
    /\ reads[r].doneAtIssue = reads[r].doneAtResolve
    /\ reads[r].doneAtIssue > 0
    /\ reads[r].value # Undef

\* A read issued while isStateSuspended was set.
SuspendedRead(r) == reads[r].susp

\* C9: a read issued while isStateSuspended is set stays unresolved until
\* the next mutation of the key completes; the drain that ends then
\* resolves all such reads, with the snapshot the batch produced, in the
\* order they were submitted.
C9_SuspendedReads ==
  /\ [](\A r \in DOMAIN reads :
          (SuspendedRead(r) /\ reads[r].status = "resolved")
          => reads[r].doneAtResolve > reads[r].doneAtIssue)
  /\ [](\A r1, r2 \in DOMAIN reads :
          (/\ r1 < r2
           /\ reads[r1].key = reads[r2].key
           /\ SuspendedRead(r1) /\ SuspendedRead(r2)
           /\ reads[r2].status = "resolved")
          => LET k == reads[r1].key
             IN /\ EventPos(k, <<"read", r1>>) # 0
                /\ EventPos(k, <<"read", r1>>) < EventPos(k, <<"read", r2>>))
  /\ [][\A k \in Keys : \A m \in DOMAIN muts :
          (Completes(k, m) /\ deferredReducers[k] = <<>>)
          => \A r \in DOMAIN reads :
               (reads[r].key = k /\ SuspendedRead(r) /\ reads[r].status = "pending")
               => (reads'[r].status = "resolved" /\ reads'[r].value = state'[k])]_vars
  /\ [][\A r \in DOMAIN reads :
          (SuspendedRead(r) /\ reads[r].status = "pending"
             /\ reads'[r].status = "resolved")
          => \E m \in DOMAIN muts : Completes(reads[r].key, m)]_vars

\* C9 witness: two reads issued under suspension have been resolved with the
\* state of the mutation that completed afterwards.
C9_Witness ==
  \E r1, r2 \in DOMAIN reads :
    /\ r1 < r2
    /\ SuspendedRead(r1) /\ SuspendedRead(r2)
    /\ reads[r1].kind = "user" /\ reads[r2].kind = "user"
    /\ reads[r1].status = "resolved" /\ reads[r2].status = "resolved"
    /\ reads[r1].value # Undef
    /\ reads[r1].value = reads[r2].value

\* C10: a subscriber added when the slot is initialized and not suspended
\* receives exactly one replay, before any drain-driven notification; a
\* subscriber added before the slot is initialized receives no replay, only
\* notifications of drains that complete after it was added.  A slot counts
\* as initialized here when isStateInitiated is set and a mutation has
\* completed, as uninitialized when the flag is not set.
C10_ReplayOnSubscribe ==
  \A s \in DOMAIN subs :
    LET g == subs[s].got
    IN  /\ (subs[s].initAtSub /\ subs[s].doneAtSub > 0 /\ ~subs[s].suspAtSub)
             => \A i \in 1..Len(g) : (g[i].kind = "replay") <=> (i = 1)
        /\ ~subs[s].initAtSub
             => \A i \in 1..Len(g) :
                  g[i].kind = "notify" /\ g[i].drain > subs[s].doneAtSub

\* The completion counts at which a drain of key k emptied the queue.
DrainEnds(k) == SeqToSet(EventsOf(evlog[k], "drained"))

\* The count at which the drain in flight after n completions ended, 0 while
\* it has not.
DrainEndAfter(k, n) ==
  IF \E c \in DrainEnds(k) : c > n
  THEN CHOOSE c \in DrainEnds(k) : c > n /\ \A c2 \in DrainEnds(k) : c2 > n => c <= c2
  ELSE 0

\* How many deliveries subscriber s received while n completions had run.
DeliveriesAt(s, n) ==
  Cardinality({i \in 1..Len(subs[s].got) : subs[s].got[i].drain = n})

KeyOfSub(s) == obs[subs[s].obs].key

\* C11: a subscriber that subscribes while a transform of its key is in
\* flight receives the snapshot of that drain exactly once: never twice, and
\* once when the drain has ended and the store's reactions have run.
C11_LateSubscriberOnce ==
  \A s \in DOMAIN subs :
    LET k == KeyOfSub(s)
        c == DrainEndAfter(k, subs[s].doneAtSub)
    IN  (subs[s].drainAtSub /\ ~subs[s].closed /\ c # 0)
        => /\ DeliveriesAt(s, c) <= 1
           /\ (stack.kind = "none" /\ jobs[k] = <<>>) => DeliveriesAt(s, c) = 1

\* How many notifications subscriber s received from the fan-out that ended
\* the drain with n completions.
NotificationsAt(s, n) ==
  Cardinality({i \in 1..Len(subs[s].got) :
                 subs[s].got[i].drain = n /\ subs[s].got[i].kind = "notify"})

\* C12: when the fan-out of a drain ends, every subscriber that was in the
\* list when it began, is still in the list and is still subscribed has
\* received exactly one notification from it, whatever the callbacks
\* unsubscribed meanwhile.
C12_FanOutReachesAll ==
  [][NotifyDone =>
       \A s \in SeqToSet(stack.atStart) \cap SeqToSet(subscribers[stack.key]) :
          ~subs[s].closed => NotificationsAt(s, completed[stack.key]) = 1]_vars

\* The list without the entries of subscriber s, the others in place.
RECURSIVE WithoutSub(_, _)
WithoutSub(list, s) ==
  IF list = <<>> THEN <<>>
  ELSE IF Head(list) = s THEN WithoutSub(Tail(list), s)
       ELSE <<Head(list)>> \o WithoutSub(Tail(list), s)

\* Subscriber s has exactly one entry in the list of its key.
HasOwnEntry(s) ==
  Cardinality({i \in 1..Len(subscribers[KeyOfSub(s)]) :
                 subscribers[KeyOfSub(s)][i] = s}) = 1

\* C13: unsubscribing a subscription that has its entry in the list removes
\* exactly that entry and leaves every other entry in place and in order,
\* also with several subscriptions of one observable.
C13_UnsubscribeRemovesOwn ==
  [][\A s \in DOMAIN subs :
       (~subs[s].closed /\ subs'[s].closed /\ HasOwnEntry(s))
         => subscribers'[KeyOfSub(s)] = WithoutSub(subscribers[KeyOfSub(s)], s)]_vars

\* The drain of key k that has just ended ran at least two transforms: its
\* last mutation was enqueued while an earlier one was in flight.
BatchOfSeveral(k) ==
  completed[k] >= 2 /\ (completed[k] - 1) \notin DrainEnds(k)

\* Every notification was sent by the fan-out of a drain that emptied the
\* queue.
NotifiedAtDrainEndOnly ==
  \A s \in DOMAIN subs : \A i \in 1..Len(subs[s].got) :
    subs[s].got[i].kind = "notify" => subs[s].got[i].drain \in DrainEnds(KeyOfSub(s))

\* C14: subscribers are notified only when a drain empties the queue, and
\* when the fan-out of a batch of several mutations ends, every subscriber
\* that existed when it began and is still subscribed has received exactly
\* one notification for the batch, carrying the state after the last
\* mutation.
C14_OneNotificationPerBatch ==
  /\ []NotifiedAtDrainEndOnly
  /\ [][(NotifyDone /\ BatchOfSeveral(stack.key)) =>
          \A s \in SeqToSet(stack.atStart) :
             ~subs[s].closed =>
               /\ NotificationsAt(s, completed[stack.key]) = 1
               /\ \A i \in 1..Len(subs[s].got) :
                    subs[s].got[i].drain = completed[stack.key]
                      => subs[s].got[i].value = SafeClone(state[stack.key])]_vars

\* Mutations 1 and 2 of key k ran as one batch and both succeeded: the
\* second was enqueued while the first was in flight.
BatchOfTwoDone(k) ==
  /\ Len(muts) >= 2
  /\ muts[1].key = k /\ muts[2].key = k
  /\ muts[1].outcome = "ok" /\ muts[2].outcome = "ok"
  /\ 2 \in DrainEnds(k) /\ 1 \notin DrainEnds(k)

\* A getState call made on a fresh slot: nothing enqueued, not suspended.
ReadOnFreshKey(r) ==
  reads[r].kind = "user" /\ reads[r].mutsAtIssue = 0 /\ ~reads[r].susp

\* A getState call made while the first transform was in flight.
ReadDuringFirst(r) ==
  /\ reads[r].kind = "user" /\ ~reads[r].susp
  /\ reads[r].busyAtIssue /\ reads[r].doneAtIssue = 0

\* C15 as stated: on a fresh key, a read issued before M1 and M2 are
\* enqueued has resolved to the state after M2 once the batch is done.
C15_EarlyReadSeesBatch ==
  \A r \in DOMAIN reads :
    (ReadOnFreshKey(r) /\ BatchOfTwoDone(reads[r].key))
      => reads[r].status = "resolved" /\ reads[r].value = [v |-> 2]

\* C15 amended: a read issued on the fresh key before the mutations
\* resolves in the call with the slot's undefined state; a read issued
\* while M1 is in flight resolves with the state after M2.
C15_ReadsAroundBatch ==
  \A r \in DOMAIN reads :
    /\ ReadOnFreshKey(r)
         => /\ reads[r].status = "resolved"
            /\ reads[r].value = Undef
            /\ reads[r].doneAtResolve = 0
    /\ (ReadDuringFirst(r) /\ BatchOfTwoDone(reads[r].key))
         => /\ reads[r].status = "resolved"
            /\ reads[r].value = [v |-> 2]
            /\ reads[r].doneAtResolve = 2

C15_Witness ==
  /\ BatchOfTwoDone(1)
  /\ \E r \in DOMAIN reads : ReadOnFreshKey(r) /\ reads[r].value = Undef
  /\ \E r \in DOMAIN reads : ReadDuringFirst(r) /\ reads[r].value = [v |-> 2]

\* This step is a reduce call on key k.
ReduceCalled(k) ==
  /\ Len(muts') = Len(muts) + 1
  /\ muts'[Len(muts')].key = k /\ ~muts'[Len(muts')].lazy

\* This step is a lazyReduce call on key k.
LazyReduceCalled(k) ==
  /\ Len(muts') = Len(muts) + 1
  /\ muts'[Len(muts')].key = k /\ muts'[Len(muts')].lazy

\* This step is an internalGetState call on key k made by one of kinds.
ReadCalled(k, kinds) ==
  /\ Len(reads') = Len(reads) + 1
  /\ reads'[Len(reads')].key = k /\ reads'[Len(reads')].kind \in kinds

\* Mutation m, queued on a slot that is not busy, is started by this step.
StartedFromIdle(m) ==
  /\ muts[m].st = "queued" /\ muts'[m].st # "queued"
  /\ ~isBusy[muts[m].key]

\* C19 as stated: a queued mutation of a slot that is not busy is started
\* only by a reduce, getState or suspendState call on its key.
C19_StartedByCallOnly ==
  [][\A m \in DOMAIN muts :
       StartedFromIdle(m)
         => \/ ReduceCalled(muts[m].key)
            \/ ReadCalled(muts[m].key, {"user", "suspend"})]_vars

\* The lazyReduce call on a slot that is not busy starts nothing and leaves
\* its request queued and unsettled.
LazyLeftQueued ==
  \A k \in Keys :
    (LazyReduceCalled(k) /\ ~isBusy[k])
      => /\ muts'[Len(muts')].st = "queued"
         /\ muts'[Len(muts')].signal = "pending"
         /\ \A m \in DOMAIN muts : muts'[m] = muts[m]
         /\ ~isBusy'[k]
         /\ deferredReducers'[k] = Append(deferredReducers[k], Len(muts'))

\* A queued mutation of a slot that is not busy starts only in a reduce call
\* or in an internalGetState call (getState, suspendState, or the subscribe
\* function that replays), and every such call starts the head of the queue.
StartedByTrigger ==
  /\ \A m \in DOMAIN muts :
       StartedFromIdle(m)
         => \/ ReduceCalled(muts[m].key)
            \/ ReadCalled(muts[m].key, {"user", "suspend", "replay"})
  /\ \A k \in Keys :
       (/\ ~isBusy[k] /\ deferredReducers[k] # <<>>
        /\ \/ ReduceCalled(k)
           \/ ReadCalled(k, {"user", "suspend", "replay"}))
         => muts'[Head(deferredReducers[k])].st \in {"running", "thrown"}

\* A getState call that started a lazy mutation is resolved only after that
\* mutation has run, with the state stored by the drain that resolved it.
TriggeringReadWaits ==
  \A r \in DOMAIN reads :
    (/\ reads[r].kind = "user" /\ reads[r].started # 0
     /\ muts[reads[r].started].lazy /\ reads[r].status = "resolved")
      => /\ muts[reads[r].started].st = "done"
         /\ reads[r].doneAtResolve > reads[r].doneAtIssue
         /\ completed[reads[r].key] = reads[r].doneAtResolve
              => reads[r].value = SafeClone(state[reads[r].key])

\* C19 amended: lazyReduce on a slot that is not busy leaves the mutation
\* queued and unsettled; it starts at the first later reduce, getState,
\* suspendState or replaying subscribe on the key; a getState that starts it
\* resolves only after it has run, with the resulting snapshot.
C19_LazyStartsAtTrigger ==
  /\ [][LazyLeftQueued /\ StartedByTrigger]_vars
  /\ []TriggeringReadWaits

C19_Witness ==
  \E r \in DOMAIN reads :
    /\ reads[r].kind = "user" /\ reads[r].started # 0
    /\ muts[reads[r].started].lazy
    /\ reads[r].status = "resolved"
    /\ reads[r].value = [v |-> reads[r].started]

\* Call c was followed by another call less than Delay later.
Superseded(c) ==
  (c + 1) \in DOMAIN calls /\ calls[c + 1].at - calls[c].at < Delay

\* Call c is the last call of a burst whose timer had the time to fire: no
\* call came within Delay of it and the clock has passed its due time.
LastOfBurstDue(c) ==
  /\ (c + 1) \in DOMAIN calls => calls[c + 1].at - calls[c].at > Delay
  /\ clock > calls[c].at + Delay

\* The runs of the wrapped work made for call c.
InvocationsOf(c) == {i \in DOMAIN invocations : invocations[i].call = c}

\* C16: in a burst of execute calls, each less than Delay after the previous
\* one, the wrapped work is invoked for the last call only, exactly once,
\* Delay after that call and with that call's arguments.
C16_OneInvocationPerBurst ==
  \A c \in DOMAIN calls :
    /\ Superseded(c) => InvocationsOf(c) = {}
    /\ LastOfBurstDue(c) => Cardinality(InvocationsOf(c)) = 1
    /\ \A i \in InvocationsOf(c) :
         /\ invocations[i].at = calls[c].at + Delay
         /\ invocations[i].arg = calls[c].arg

\* Calls at ticks 0, 1 and 2 (t = 0, 50, 100), one invocation at 2 + Delay
\* with the arguments of the third call, which differ from the first call's.
C16_Witness ==
  /\ Len(calls) = 3
  /\ calls[1].at = 0 /\ calls[2].at = 1 /\ calls[3].at = 2
  /\ calls[3].arg # calls[1].arg
  /\ Len(invocations) = 1
  /\ invocations[1].at = 2 + Delay
  /\ invocations[1].arg = calls[3].arg

\* C17: once a later call's timer has fired and the work it started has
\* completed, the completion signal of a superseded call is resolved.
C17_SupersededResolved ==
  \A c \in DOMAIN calls :
    (/\ Superseded(c)
     /\ \E i \in DOMAIN invocations :
          invocations[i].call > c /\ muts[invocations[i].mut].st = "done")
      => calls[c].signal = "resolved"

\* C18: the completion signal of the surviving call is settled only when the
\* mutation it triggered has finished, resolved if the transform succeeded
\* and rejected if it failed.
C18_SignalFollowsMutation ==
  \A i \in DOMAIN invocations :
    LET c == invocations[i].call
        m == invocations[i].mut
    IN  calls[c].signal # "pending"
          => /\ muts[m].st = "done"
             /\ calls[c].signal = "resolved" <=> muts[m].outcome = "ok"

\* The StateData object of key k.
Slot(k) ==
  <<state[k], isBusy[k], isStateSuspended[k], isStateInitiated[k],
    deferredReducers[k], deferredGetters[k], suspendedGetters[k], subscribers[k]>>

\* This step is an operation on key k: a public call naming k, a subscribe
\* or unsubscribe of an observable of k, a promise reaction the store queued
\* for k, or a step of k's drain and fan-out.
OnKey(k) ==
  \/ Reduce(k) \/ LazyReduce(k) \/ GetState(k) \/ SuspendState(k)
  \/ GetObservableState(k)
  \/ \E o \in DOMAIN obs : obs[o].key = k /\ Subscribe(o)
  \/ \E s \in DOMAIN subs : KeyOfSub(s) = k /\ Unsubscribe(s)
  \/ RunSuspendJob(k) \/ RunReplayJob(k)
  \/ \E m \in DOMAIN muts : \E res \in Results(m) : Complete(k, m, res)
  \/ stack.key = k /\ (ReplayPush \/ NotifySubscriber \/ NotifyDone)

\* A reduce on a slot that is not busy starts its transform in the call, and
\* a getState on an idle, unsuspended slot is resolved in the call.
StartsAtOnce(k) ==
  /\ (ReduceCalled(k) /\ ~isBusy[k] /\ deferredReducers[k] = <<>>)
       => muts'[Len(muts')].st \in {"running", "thrown"}
  /\ (ReadCalled(k, {"user"}) /\ ~isBusy[k] /\ deferredReducers[k] = <<>>
        /\ ~isStateSuspended[k])
       => reads'[Len(reads')].status = "resolved"

\* C20: an operation on key k leaves the slot of every other key unchanged,
\* and a mutation or read of a key is started or resolved at once whenever
\* its own slot allows it, whatever the other slots are doing.
C20_SlotsIndependent ==
  [][\A k \in Keys :
       /\ OnKey(k) => \A k2 \in Keys \ {k} : Slot(k2)' = Slot(k2)
       /\ StartsAtOnce(k)]_vars

\* Key 1 is suspended and busy with a running transform, and a mutation of
\* key 2 enqueued after that has been started.
C20_Witness ==
  /\ executing[1] # {} /\ isBusy[1] /\ isStateSuspended[1]
  /\ \E m \in DOMAIN muts :
       /\ muts[m].key = 2 /\ muts[m].st = "running"
       /\ \E m1 \in executing[1] : m1 < m


\* ------------------------------------------------------------ claim C21

\* The object now held in stateData.state of key k.
StoredObj(k) == StoredObjAt(state[k], k, completed[k])

\* Every hand-off of a state object made so far: to the transform of a
\* started mutation, to the reader of a resolved read, to a subscriber's next.
HandOffs ==
  {[to |-> "transform", n |-> m, i |-> 0, obj |-> muts[m].inputObj] :
      m \in {x \in DOMAIN muts : muts[x].st # "queued"}}
  \cup {[to |-> "reader", n |-> r, i |-> 0, obj |-> reads[r].valueObj] :
      r \in {x \in DOMAIN reads : reads[x].status = "resolved"}}
  \cup UNION {{[to |-> "subscriber", n |-> s, i |-> i, obj |-> subs[s].got[i].obj] :
                 i \in DOMAIN subs[s].got} : s \in DOMAIN subs}

\* C21: every state object handed to a transform, a reader or a subscriber
\* is a fresh clone: it is not the object the slot stores and not an object
\* handed to anybody else.
C21_HandedFreshClone ==
  \A h \in HandOffs :
    h.obj # NoObj =>
      /\ \A k \in Keys : h.obj # StoredObj(k)
      /\ \A g \in HandOffs \ {h} : g.obj # h.obj


\* ------------------------------------------------------------ claim C22

\* Nothing of key k is left to run without a further call: no transform is
\* awaited, no reaction is queued and no store code is on the stack.
Quiet(k) == stack.kind = "none" /\ jobs[k] = <<>> /\ executing[k] = {}

\* Mutations of key k whose reduceAsync threw synchronously.
ThrownOn(k) == {m \in DOMAIN muts : muts[m].key = k /\ muts[m].st = "thrown"}

\* C22: when a transform throws synchronously, the mutation's completion
\* signal is rejected, the mutations queued behind it are executed and the
\* slot returns to not-busy: once the slot has nothing left to run, all
\* three have happened.
C22_SyncThrowRecovered ==
  \A k \in Keys : \A m \in ThrownOn(k) :
    Quiet(k) =>
      /\ muts[m].signal = "rejected"
      /\ ~isBusy[k]
      /\ \A n \in DOMAIN muts :
           (n > m /\ muts[n].key = k /\ ~muts[n].lazy) => muts[n].st # "queued"


\* ------------------------------------------------------------ claim C23

\* C23: whenever a transform's promise rejects, whatever the rejection value
\* (undefined, null, 0 and '' included), the step that completes the
\* mutation rejects its completion signal; it never resolves it.
C23_RejectionAlwaysRejects ==
  [][\A k \in Keys : \A m \in DOMAIN muts : \A res \in Results(m) :
       (Complete(k, m, res) /\ ~res.ok) => muts'[m].signal = "rejected"]_vars


\* ------------------------------------------------------------ claim C24

\* The reads waiting in either queue of key k.
WaitingReads(k) == SeqToSet(deferredGetters[k]) \cup SeqToSet(suspendedGetters[k])

\* C24: after every completion of a transform, successful or failed, the
\* slot's isStateSuspended flag is false; when that completion empties the
\* mutation queue, the reads of both queues, the suspended one included,
\* are resolved by it and both queues are left empty.
C24_CompletionClearsSuspension ==
  [][\A k \in Keys : \A m \in DOMAIN muts : \A res \in Results(m) :
       Complete(k, m, res) =>
         /\ ~isStateSuspended'[k]
         /\ deferredReducers[k] = <<>> =>
              /\ suspendedGetters'[k] = <<>>
              /\ deferredGetters'[k] = <<>>
              /\ \A r \in WaitingReads(k) : reads'[r].status = "resolved"]_vars

\* A read issued while the slot was suspended has been resolved by a drain
\* that ended with a failed transform.
C24_Witness ==
  \E r \in DOMAIN reads : \E m \in DOMAIN muts :
    /\ reads[r].susp
    /\ reads[r].kind = "user"
    /\ reads[r].status = "resolved"
    /\ reads[r].doneAtResolve > reads[r].doneAtIssue
    /\ muts[m].key = reads[r].key
    /\ muts[m].outcome = "rejected"
    /\ completed[reads[r].key] = 1


\* ------------------------------------------------------------ claim C25

\* The step is the reaction of suspendState's read r: it sets the flag.
SetsFlag(k, r) == RunSuspendJob(k) /\ Head(jobs[k]).read = r

\* A suspendState call of key k whose reaction has not run yet.
SuspendPending(k) ==
  \E r \in DOMAIN reads :
    reads[r].key = k /\ reads[r].kind = "suspend" /\ ~reads[r].thenDone

\* The step issues a new read of key k.
IssuesRead(k) ==
  /\ Len(reads') = Len(reads) + 1
  /\ reads'[Len(reads')].key = k

\* C25: isStateSuspended is set only by the reaction of the read that
\* suspendState issued, after that read has been resolved; when suspendState
\* was called while a transform of the key was in flight, the drain in
\* flight has emptied the queue before the flag is set; a read issued while
\* a suspendState call is waiting and the flag is not set goes to the normal
\* queue; the promise suspendState returned is resolved by the step that
\* sets the flag, not before.
C25_SuspendAfterOwnRead ==
  /\ [][\A k \in Keys :
          (~isStateSuspended[k] /\ isStateSuspended'[k]) => RunSuspendJob(k)]_vars
  /\ [][\A k \in Keys : \A r \in DOMAIN reads :
          SetsFlag(k, r) =>
            /\ reads[r].kind = "suspend" /\ reads[r].key = k
            /\ reads[r].status = "resolved"
            /\ reads[r].drainAtIssue =>
                 /\ DrainEndAfter(k, reads[r].doneAtIssue) # 0
                 /\ DrainEndAfter(k, reads[r].doneAtIssue) <= reads[r].doneAtResolve]_vars
  /\ [][\A k \in Keys :
          (IssuesRead(k) /\ SuspendPending(k) /\ ~isStateSuspended[k]) =>
            /\ ~reads'[Len(reads')].susp
            /\ Len(reads') \notin SeqToSet(suspendedGetters'[k])
            /\ \/ Len(reads') \in SeqToSet(deferredGetters'[k])
               \/ reads'[Len(reads')].status = "resolved"]_vars
  /\ [][\A r \in DOMAIN reads :
          (~reads[r].thenDone /\ reads'[r].thenDone)
            => SetsFlag(reads[r].key, r) /\ isStateSuspended'[reads[r].key]]_vars

\* suspendState was called while a transform was in flight, a read issued
\* after it during the same drain went to the normal queue, the drain has
\* ended and the flag has been set since.
C25_Witness ==
  \E r, r2 \in DOMAIN reads :
    /\ r < r2
    /\ reads[r].key = reads[r2].key
    /\ reads[r].kind = "suspend" /\ reads[r].drainAtIssue /\ reads[r].thenDone
    /\ reads[r2].kind = "user" /\ reads[r2].drainAtIssue
    /\ reads[r2].doneAtIssue = reads[r].doneAtIssue
    /\ ~reads[r2].susp
    /\ reads[r2].status = "resolved"
    /\ isStateSuspended[reads[r].key]


\* ------------------------------------------------------------ claim C26

\* C26: every mutation enqueued with reduce is executed and its completion
\* signal settled without a further call to the store, also when reduce was
\* called from a subscriber's callback during a fan-out: once the slot has
\* nothing left to run (and no transform failed to return a promise), no
\* such mutation is still queued or unsettled.
C26_ReduceRunsUnaided ==
  \A k \in Keys :
    (Quiet(k) /\ ThrownOn(k) = {}) =>
      \A m \in DOMAIN muts :
        (muts[m].key = k /\ ~muts[m].lazy) =>
          (muts[m].st = "done" /\ muts[m].signal # "pending")


\* ------------------------------------------------------------ claim C27

\* C27: a slot that is not busy and not suspended, while no store code is on
\* the stack, has both read queues empty: no read, from wherever it was
\* issued, is left pending on an idle slot.
C27_IdleSlotHasNoReads ==
  \A k \in Keys :
    (~isBusy[k] /\ ~isStateSuspended[k] /\ stack.kind = "none") =>
      (deferredGetters[k] = <<>> /\ suspendedGetters[k] = <<>>)


\* ------------------------------------------------------------ claim C28

\* The step resolves read r.
ResolvesRead(r) ==
  /\ r \in DOMAIN reads'
  /\ reads'[r].status = "resolved"
  /\ r \in DOMAIN reads => reads[r].status = "pending"

\* C28: a read is resolved only by a step that leaves the key's mutation
\* queue empty and no transform of the key executing, and it is resolved
\* with the snapshot stored at that moment, never with the snapshot of a
\* batch that is still draining.
C28_ReadsResolvedAtRest ==
  [][\A r \in 1..(Len(reads) + 1) :
       ResolvesRead(r) =>
         LET k == reads'[r].key
         IN /\ deferredReducers'[k] = <<>>
            /\ executing'[k] = {}
            /\ reads'[r].value = SafeClone(state'[k])]_vars

\* A read issued while the first transform of a batch of two was in flight
\* has been resolved after both completed.
C28_Witness ==
  \E r \in DOMAIN reads :
    /\ reads[r].kind = "user"
    /\ reads[r].drainAtIssue
    /\ reads[r].status = "resolved"
    /\ reads[r].doneAtResolve >= reads[r].doneAtIssue + 2
    /\ reads[r].value # Undef


\* ------------------------------------------------------------ claim C29

\* C29: the subscriber list of a slot holds only subscriptions that are
\* still subscribed, each at most once.
C29_ListHoldsLiveSubscribersOnce ==
  \A k \in Keys :
    \A i \in DOMAIN subscribers[k] :
      /\ ~subs[subscribers[k][i]].closed
      /\ \A j \in DOMAIN subscribers[k] :
           subscribers[k][j] = subscribers[k][i] => j = i


\* ------------------------------------------------------------ claim C30

\* C30: whether a subscriber gets a replay is decided by the slot's flags at
\* the moment it subscribes, whenever the observable was obtained: a replay
\* is requested when the slot is then initialized (a mutation has completed)
\* and not suspended, none when it is then uninitialized or suspended; so a
\* subscriber of an observable obtained before the slot was initialized that
\* subscribes after a mutation has completed has a replay of the current
\* snapshot requested for it.
C30_ReplayDecidedAtSubscribe ==
  \A s \in DOMAIN subs :
    /\ (subs[s].initAtSub /\ ~subs[s].suspAtSub /\ subs[s].doneAtSub > 0)
         => subs[s].replay
    /\ (~subs[s].initAtSub \/ subs[s].suspAtSub) => ~subs[s].replay


\* ------------------------------------------------------------ claim C31

\* The call e, made by a running transform, has been served: the read
\* resolved, the mutation's transform entered.
Served(e) ==
  IF e.kind = "read" THEN reads[e.id].status = "resolved"
  ELSE muts[e.id].st # "queued"

\* C31: a read or mutation of K issued from inside K's running transform is
\* not resolved or started before that transform has completed; a transform
\* that awaits it is therefore still running, its call unserved and
\* unsettled and K busy, in every state that follows.
C31_SelfCallWaitsForTransform ==
  \A e \in inside :
    /\ Served(e) => muts[e.by].st = "done"
    /\ e.awaited =>
         /\ muts[e.by].st = "running"
         /\ e.by \in executing[muts[e.by].key]
         /\ isBusy[muts[e.by].key]
         /\ ~Served(e) /\ ~Settled(e)

\* A transform awaits a read it issued for its own key; calls made from
\* outside afterwards have changed nothing: the read, a later read and a
\* later mutation are all pending.
C31_Witness ==
  \E e \in inside :
    /\ e.awaited /\ e.kind = "read"
    /\ \E r \in DOMAIN reads :
         r > e.id /\ reads[r].key = reads[e.id].key /\ reads[r].status = "pending"
    /\ \E n \in DOMAIN muts :
         n > e.by /\ muts[n].key = muts[e.by].key /\ muts[n].st = "queued"
    /\ Calls = MaxCallsR

====
